---- MODULE Spec2Model ----
(***************************************************************************)
(* chexpert_labeler/stages/classify.py: the mention classifier.            *)
(*                                                                         *)
(* ModifiedDetector.detect is a generator: it builds the dependency graph  *)
(* of one sentence, then for every location of locs and every graph node   *)
(* of that location runs the cascade pre-negation-uncertainty > negation > *)
(* post-negation-uncertainty.  Classifier.classify drives parse, convert,  *)
(* detect and the discard of the sentences over a collection.              *)
(*                                                                         *)
(* Spec          one call detect(sentence, locs), iterated to the end      *)
(* SpecClassify  one call classify(collection)                             *)
(***************************************************************************)
EXTENDS Integers, Sequences, FiniteSets, TLC

\* ---- bounds of the model ------------------------------------------------
MaxNodes == 2
MaxLocs == 2
MaxPatterns == 2
MaxMatches == 2
MaxDocs == 2
MaxPassages == 2

VARIABLES
    \* ModifiedDetector (self.*), set by __init__
    preneg_uncertain_patterns, neg_patterns, uncertain_patterns,
    \* one detect(sentence, locs) call: the generator's frame
    sentence,      \* the BioCSentence argument
    pc,            \* "created", "loop", "nodes", "done", "raised"
    g,             \* the graph built by semgraph.load + propagator.propagate
    li,            \* number of locations of locs taken so far
    loc,           \* the current location (begin, end)
    nodes,         \* find_nodes(g, loc[0], loc[1]) of the current location
    ni,            \* index in nodes of the next node to visit
    \* what the caller of the generator and the logger observe
    last,          \* the latest node visit: scans made and detections yielded
    locOut,        \* detections yielded so far for the current location
    lastYield,     \* position <<location index, node index>> of the most recent yield
    prevYield,     \* position of the yield before it
    log,           \* records written by logger.exception
    raised,        \* the exception that left detect, or NoError
    \* Classifier (self.*) and one classify(collection) call
    parser, ptb2dep,
    documents,     \* collection.documents
    di,            \* index of the document of the current loop iteration
    step,          \* "idle", "parse", "convert", "detect", "discard", "done", "raised"
    trace,         \* the calls made so far, as <<document index, step>>
    error          \* the exception that left classify, or NoError

detVars == <<preneg_uncertain_patterns, neg_patterns, uncertain_patterns>>
genVars == <<sentence, pc, g, li, loc, nodes, ni, last, locOut, lastYield, prevYield, log, raised>>
clsVars == <<parser, ptb2dep, documents, di, step, trace, error>>
vars == <<detVars, genVars, clsVars>>

\* ---- constants of the program --------------------------------------------
UNCERTAINTY == "UNCERTAINTY"
NEGATION == "NEGATION"

pre_negation_uncertainty_path == "pre_negation_uncertainty"
negation_path == "negation"
post_negation_uncertainty_path == "post_negation_uncertainty"
Paths == {pre_negation_uncertainty_path, negation_path, post_negation_uncertainty_path}

NoError == "none"

\* ---- collaborators: patterns, graphs, matches ----------------------------
\* ngrex.load(path): the patterns of a resource, in the order of the resource.
load(path) == [i \in 1..MaxPatterns |-> [path |-> path, line |-> i]]

AllPatterns == {[path |-> p, line |-> i] : p \in Paths, i \in 1..MaxPatterns}

Nodes == 1..MaxNodes

\* A graph: its nodes 1..MaxNodes in graph order (node n is the token [n, n+1)),
\* and for each pattern the group(0) of the matches finditer produces, in order.
RECURSIVE HitsOf(_, _, _)
HitsOf(ml, pat, k) ==
    IF k > Len(ml) THEN <<>>
    ELSE IF ml[k][1] = pat THEN <<ml[k][2]>> \o HitsOf(ml, pat, k + 1)
         ELSE HitsOf(ml, pat, k + 1)

MatchLists == UNION {[1..k -> AllPatterns \X Nodes] : k \in 0..MaxMatches}

Graphs == {[pat \in AllPatterns |-> HitsOf(ml, pat, 1)] : ml \in MatchLists}

NoGraph == [pat \in AllPatterns |-> <<>>]

\* pattern.finditer(graph): the matches, each with its group(0).
finditer(pattern, graph) ==
    [k \in 1..Len(graph[pattern]) |->
        [pattern |-> pattern, index |-> k, group0 |-> graph[pattern][k]]]

\* Python's None for a match.
None == [pattern |-> [path |-> "", line |-> 0], index |-> 0, group0 |-> 0]

\* neg_detector.find_nodes(graph, begin, end): the nodes of the location, in graph order.
RECURSIVE NodesFrom(_, _, _)
NodesFrom(n, begin, end) ==
    IF n > MaxNodes THEN <<>>
    ELSE IF begin <= n /\ n + 1 <= end THEN <<n>> \o NodesFrom(n + 1, begin, end)
         ELSE NodesFrom(n + 1, begin, end)

find_nodes(graph, begin, end) == NodesFrom(1, begin, end)

Locations ==
    {<<0, 1>>} \cup {<<b, e>> \in (1..MaxNodes) \X (2..(MaxNodes + 1)) : b < e}

\* ---- the match_* methods -------------------------------------------------
\* The inner loop: for m in pattern.finditer(graph): if m.group(0) == node: return m.
\* The result is the match returned (None when the loop ends) and the matches
\* the loop read.
RECURSIVE ScanMatches(_, _, _, _)
ScanMatches(ms, node, k, seen) ==
    IF k > Len(ms) THEN [m |-> None, seen |-> seen]
    ELSE IF ms[k].group0 = node THEN [m |-> ms[k], seen |-> Append(seen, ms[k])]
         ELSE ScanMatches(ms, node, k + 1, Append(seen, ms[k]))

\* The outer loop: for pattern in patterns.
RECURSIVE ScanPatterns(_, _, _, _, _)
ScanPatterns(patterns, graph, node, i, seen) ==
    IF i > Len(patterns) THEN [m |-> None, seen |-> seen]
    ELSE LET r == ScanMatches(finditer(patterns[i], graph), node, 1, seen)
         IN  IF r.m # None THEN r
             ELSE ScanPatterns(patterns, graph, node, i + 1, r.seen)

Reverse(seq) == [i \in 1..Len(seq) |-> seq[Len(seq) + 1 - i]]

\* match_uncertainty reading self.uncertain_patterns from the last pattern to the first.
match_uncertainty_reversed(graph, node) ==
    ScanPatterns(Reverse(uncertain_patterns), graph, node, 1, <<>>)

match_uncertainty(graph, node) ==
    ScanPatterns(uncertain_patterns, graph, node, 1, <<>>)

match_prenegation_uncertainty(graph, node) ==
    ScanPatterns(preneg_uncertain_patterns, graph, node, 1, <<>>)

\* neg_detector.Detector.match_neg, inherited: the same scan of self.neg_patterns.
match_neg(graph, node) ==
    ScanPatterns(neg_patterns, graph, node, 1, <<>>)

\* ---- detect: the body of the two loops ------------------------------------
Detection(label, m, location) == [label |-> label, m |-> m, loc |-> location]

Scan(name, r) == [set |-> name, m |-> r.m, seen |-> r.seen]

\* DetectNode with the negation rules matched before the pre-negation rules.
DetectNode_negFirst(graph, node, location) ==
    LET neg_m == match_neg(graph, node) IN
    IF neg_m.m # None
    THEN [scans |-> <<Scan("neg", neg_m)>>,
          yields |-> <<Detection(NEGATION, neg_m.m, location)>>]
    ELSE LET preneg_m == match_prenegation_uncertainty(graph, node) IN
         IF preneg_m.m # None
         THEN [scans |-> <<Scan("neg", neg_m), Scan("preneg", preneg_m)>>,
               yields |-> <<Detection(UNCERTAINTY, preneg_m.m, location)>>]
         ELSE LET postneg_m == match_uncertainty(graph, node) IN
              [scans |-> <<Scan("neg", neg_m), Scan("preneg", preneg_m),
                           Scan("postneg", postneg_m)>>,
               yields |-> IF postneg_m.m # None
                          THEN <<Detection(UNCERTAINTY, postneg_m.m, location)>>
                          ELSE <<>>]

\* DetectNode with three independent ifs in place of the if/else chain.
DetectNode_noElse(graph, node, location) ==
    LET preneg_m == match_prenegation_uncertainty(graph, node)
        neg_m == match_neg(graph, node)
        postneg_m == match_uncertainty(graph, node)
    IN  [scans |-> <<Scan("preneg", preneg_m), Scan("neg", neg_m),
                     Scan("postneg", postneg_m)>>,
         yields |->
            (IF preneg_m.m # None
             THEN <<Detection(UNCERTAINTY, preneg_m.m, location)>> ELSE <<>>)
            \o (IF neg_m.m # None
                THEN <<Detection(NEGATION, neg_m.m, location)>> ELSE <<>>)
            \o (IF postneg_m.m # None
                THEN <<Detection(UNCERTAINTY, postneg_m.m, location)>> ELSE <<>>)]

\* DetectNode yielding the post-negation result without testing it.
DetectNode_alwaysYield(graph, node, location) ==
    LET preneg_m == match_prenegation_uncertainty(graph, node) IN
    IF preneg_m.m # None
    THEN [scans |-> <<Scan("preneg", preneg_m)>>,
          yields |-> <<Detection(UNCERTAINTY, preneg_m.m, location)>>]
    ELSE LET neg_m == match_neg(graph, node) IN
         IF neg_m.m # None
         THEN [scans |-> <<Scan("preneg", preneg_m), Scan("neg", neg_m)>>,
               yields |-> <<Detection(NEGATION, neg_m.m, location)>>]
         ELSE LET postneg_m == match_uncertainty(graph, node) IN
              [scans |-> <<Scan("preneg", preneg_m), Scan("neg", neg_m),
                           Scan("postneg", postneg_m)>>,
               yields |-> <<Detection(UNCERTAINTY, postneg_m.m, location)>>]

\* One pass of the body of "for node in find_nodes(...)": the scans made, in
\* order, and the detections yielded.
DetectNode(graph, node, location) ==
    LET preneg_m == match_prenegation_uncertainty(graph, node) IN
    IF preneg_m.m # None
    THEN [scans |-> <<Scan("preneg", preneg_m)>>,
          yields |-> <<Detection(UNCERTAINTY, preneg_m.m, location)>>]
    ELSE LET neg_m == match_neg(graph, node) IN
         IF neg_m.m # None
         THEN [scans |-> <<Scan("preneg", preneg_m), Scan("neg", neg_m)>>,
               yields |-> <<Detection(NEGATION, neg_m.m, location)>>]
         ELSE LET postneg_m == match_uncertainty(graph, node) IN
              IF postneg_m.m # None
              THEN [scans |-> <<Scan("preneg", preneg_m), Scan("neg", neg_m),
                                Scan("postneg", postneg_m)>>,
                    yields |-> <<Detection(UNCERTAINTY, postneg_m.m, location)>>]
              ELSE [scans |-> <<Scan("preneg", preneg_m), Scan("neg", neg_m),
                                Scan("postneg", postneg_m)>>,
                    yields |-> <<>>]

NoVisit == [li |-> 0, ni |-> 0, node |-> 0, loc |-> <<0, 0>>, scans |-> <<>>, yields |-> <<>>]

\* ---- one detect(sentence, locs) call --------------------------------------
\* A sentence: its offset in the document, and whether its dependency structure
\* lets semgraph.load and propagator.propagate succeed or makes one of them raise.
Offsets == {0, 57}
Sentences ==
    {[offset |-> 0, dep |-> "ok"]}
    \cup [offset : Offsets, dep : {"load_error", "propagate_error"}]

InitDetector ==
    /\ neg_patterns = load(negation_path)
    /\ uncertain_patterns = load(post_negation_uncertainty_path)
    /\ preneg_uncertain_patterns = load(pre_negation_uncertainty_path)

InitGen ==
    /\ pc = "created"
    /\ g = NoGraph
    /\ li = 0
    /\ loc = <<0, 0>>
    /\ nodes = <<>>
    /\ ni = 1
    /\ last = NoVisit
    /\ locOut = <<>>
    /\ lastYield = <<0, 0>>
    /\ prevYield = <<0, 0>>
    /\ log = <<>>
    /\ raised = NoError

\* try: g = semgraph.load(sentence); propagator.propagate(g)  -- both succeed.
BuildGraph ==
    /\ pc = "created"
    /\ sentence.dep = "ok"
    /\ \E graph \in Graphs : g' = graph
    /\ pc' = "loop"
    /\ UNCHANGED <<sentence, li, loc, nodes, ni, last, locOut, lastYield, prevYield, log, raised>>
    /\ UNCHANGED <<detVars, clsVars>>

\* BuildGraphFails without the raise: the error is logged and the generator ends.
BuildGraphFails_swallow ==
    /\ pc = "created"
    /\ sentence.dep # "ok"
    /\ log' = Append(log, [msg |-> "Cannot parse dependency graph", offset |-> sentence.offset])
    /\ pc' = "done"
    /\ UNCHANGED <<sentence, g, li, loc, nodes, ni, last, locOut, lastYield, prevYield, raised>>
    /\ UNCHANGED <<detVars, clsVars>>

\* except Exception: logger.exception(...); raise
BuildGraphFails ==
    /\ pc = "created"
    /\ sentence.dep # "ok"
    /\ log' = Append(log, [msg |-> "Cannot parse dependency graph", offset |-> sentence.offset])
    /\ raised' = sentence.dep
    /\ pc' = "raised"
    /\ UNCHANGED <<sentence, g, li, loc, nodes, ni, last, locOut, lastYield, prevYield>>
    /\ UNCHANGED <<detVars, clsVars>>

\* for loc in locs: the next location of the caller's list, and its nodes.
NextLoc ==
    /\ pc = "loop"
    /\ li < MaxLocs
    /\ \E l \in Locations :
        /\ loc' = l
        /\ nodes' = find_nodes(g, l[1], l[2])
        /\ pc' = IF find_nodes(g, l[1], l[2]) = <<>> THEN "loop" ELSE "nodes"
    /\ li' = li + 1
    /\ ni' = 1
    /\ last' = NoVisit
    /\ locOut' = <<>>
    /\ UNCHANGED <<sentence, g, lastYield, prevYield, log, raised>>
    /\ UNCHANGED <<detVars, clsVars>>

\* The position of a node of the current location: the index of the location in
\* locs and the index of the node in the order find_nodes returns.
PositionOf(node) ==
    LET found == find_nodes(g, loc[1], loc[2])
    IN  <<li, CHOOSE i \in 1..Len(found) : found[i] = node>>

\* The effect of one pass of the loop body on `node`.
Visit(node) ==
    LET r == DetectNode(g, node, loc) IN
        /\ last' = [li |-> li, ni |-> ni, node |-> node, loc |-> loc,
                    scans |-> r.scans, yields |-> r.yields]
        /\ locOut' = locOut \o r.yields
        /\ lastYield' = IF r.yields # <<>> THEN PositionOf(node) ELSE lastYield
        /\ prevYield' = IF r.yields # <<>> THEN lastYield ELSE prevYield

\* VisitNode taking the nodes of the location from the last to the first.
VisitNode_reversed ==
    /\ pc = "nodes"
    /\ ni <= Len(nodes)
    /\ Visit(nodes[Len(nodes) + 1 - ni])
    /\ ni' = ni + 1
    /\ pc' = IF ni + 1 > Len(nodes) THEN "loop" ELSE "nodes"
    /\ UNCHANGED <<sentence, g, li, loc, nodes, log, raised>>
    /\ UNCHANGED <<detVars, clsVars>>

\* for node in find_nodes(...): the body, for the next node of the location.
VisitNode ==
    /\ pc = "nodes"
    /\ ni <= Len(nodes)
    /\ Visit(nodes[ni])
    /\ ni' = ni + 1
    /\ pc' = IF ni + 1 > Len(nodes) THEN "loop" ELSE "nodes"
    /\ UNCHANGED <<sentence, g, li, loc, nodes, log, raised>>
    /\ UNCHANGED <<detVars, clsVars>>

\* locs is exhausted: the generator returns.
EndLocs ==
    /\ pc = "loop"
    /\ pc' = "done"
    /\ UNCHANGED <<sentence, g, li, loc, nodes, ni, last, locOut, lastYield, prevYield, log, raised>>
    /\ UNCHANGED <<detVars, clsVars>>

\* ---- Classifier.classify ---------------------------------------------------
\* A document: its passages, each with its sentences (which hold the text), what
\* the stages have written on it, and the stage that raises on it, if any.
Sentence == [text |-> "text"]
Passage == [sentences |-> <<Sentence>>]
PassageLists == UNION {[1..k -> {Passage}] : k \in 0..MaxPassages}
Faults == {"none", "parse_error", "convert_error", "detect_error"}
Documents ==
    [passages : PassageLists, fault : Faults,
     parsed : {FALSE}, converted : {FALSE}, annotated : {FALSE}]
Collections == UNION {[1..k -> Documents] : k \in 0..MaxDocs}

InitClassifier ==
    /\ parser = "NegBioParser"
    /\ ptb2dep = "NegBioPtb2DepConverter"

InitClassifierIdle ==
    /\ InitClassifier
    /\ documents = <<>>
    /\ di = 0
    /\ step = "idle"
    /\ trace = <<>>
    /\ error = NoError

\* The call that follows the last statement of the loop body for document di:
\* the next document's parse_doc, or the return of classify.
AfterBody == IF di < Len(documents) THEN "parse" ELSE "done"

\* ParseDoc with the error of parse_doc caught and the document skipped.
ParseDoc_skipDocument ==
    /\ step = "parse"
    /\ trace' = Append(trace, <<di, "parse_doc">>)
    /\ IF documents[di].fault = "parse_error"
       THEN /\ step' = AfterBody
            /\ di' = IF di < Len(documents) THEN di + 1 ELSE di
            /\ UNCHANGED documents
       ELSE /\ documents' = [documents EXCEPT ![di].parsed = TRUE]
            /\ step' = "convert"
            /\ UNCHANGED di
    /\ UNCHANGED <<parser, ptb2dep, error>>
    /\ UNCHANGED <<detVars, genVars>>

\* self.parser.parse_doc(document)
ParseDoc ==
    /\ step = "parse"
    /\ trace' = Append(trace, <<di, "parse_doc">>)
    /\ IF documents[di].fault = "parse_error"
       THEN /\ error' = "parse_error"
            /\ step' = "raised"
            /\ UNCHANGED documents
       ELSE /\ documents' = [documents EXCEPT ![di].parsed = TRUE]
            /\ step' = "convert"
            /\ UNCHANGED error
    /\ UNCHANGED <<parser, ptb2dep, di>>
    /\ UNCHANGED <<detVars, genVars>>

\* self.ptb2dep.convert_doc(document)
ConvertDoc ==
    /\ step = "convert"
    /\ trace' = Append(trace, <<di, "convert_doc">>)
    /\ IF documents[di].fault = "convert_error"
       THEN /\ error' = "convert_error"
            /\ step' = "raised"
            /\ UNCHANGED documents
       ELSE /\ documents' = [documents EXCEPT ![di].converted = TRUE]
            /\ step' = "detect"
            /\ UNCHANGED error
    /\ UNCHANGED <<parser, ptb2dep, di>>
    /\ UNCHANGED <<detVars, genVars>>

\* DetectDoc placed after the del statement: the sentences are discarded first.
DetectDoc_afterDiscard ==
    /\ step = "detect"
    /\ trace' = Append(trace, <<di, "del_sentences">>)
    /\ documents' = [documents EXCEPT ![di].passages =
            IF @ = <<>> THEN @ ELSE [@ EXCEPT ![1].sentences = <<>>]]
    /\ step' = "discard"
    /\ UNCHANGED <<parser, ptb2dep, di, error>>
    /\ UNCHANGED <<detVars, genVars>>

\* negdetect.detect(document, self.detector)
DetectDoc ==
    /\ step = "detect"
    /\ trace' = Append(trace, <<di, "detect">>)
    /\ IF documents[di].fault = "detect_error"
       THEN /\ error' = "detect_error"
            /\ step' = "raised"
            /\ UNCHANGED documents
       ELSE /\ documents' = [documents EXCEPT ![di].annotated = TRUE]
            /\ step' = "discard"
            /\ UNCHANGED error
    /\ UNCHANGED <<parser, ptb2dep, di>>
    /\ UNCHANGED <<detVars, genVars>>

\* del document.passages[0].sentences[:]
DiscardSentences ==
    /\ step = "discard"
    /\ trace' = Append(trace, <<di, "del_sentences">>)
    /\ IF documents[di].passages = <<>>
       THEN /\ error' = "IndexError"
            /\ step' = "raised"
            /\ UNCHANGED <<documents, di>>
       ELSE /\ documents' = [documents EXCEPT ![di].passages[1].sentences = <<>>]
            /\ step' = AfterBody
            /\ di' = IF di < Len(documents) THEN di + 1 ELSE di
            /\ UNCHANGED error
    /\ UNCHANGED <<parser, ptb2dep>>
    /\ UNCHANGED <<detVars, genVars>>

\* ---- specifications --------------------------------------------------------
Init ==
    /\ InitDetector
    /\ InitGen
    /\ sentence \in Sentences
    /\ InitClassifierIdle

Next == BuildGraph \/ BuildGraphFails \/ NextLoc \/ VisitNode \/ EndLocs

Spec == Init /\ [][Next]_vars

InitClassify ==
    /\ InitDetector
    /\ InitGen
    /\ sentence = [offset |-> 0, dep |-> "ok"]
    /\ InitClassifier
    /\ documents \in Collections
    /\ di = IF documents = <<>> THEN 0 ELSE 1
    /\ step = IF documents = <<>> THEN "done" ELSE "parse"
    /\ trace = <<>>
    /\ error = NoError

NextClassify == ParseDoc \/ ConvertDoc \/ DetectDoc \/ DiscardSentences

SpecClassify == InitClassify /\ [][NextClassify]_vars

\* ---- properties of detect ---------------------------------------------------
\* Some match of some pattern of the resource `path` binds `node` in `graph`.
Hit(path, graph, node) ==
    \E p \in AllPatterns :
        /\ p.path = path
        /\ \E k \in 1..Len(graph[p]) : graph[p][k] = node

Visited == last.li > 0

\* All matches of the patterns of a resource on a graph: the patterns in the
\* order of the resource, the matches of one pattern in finditer order.
RECURSIVE MatchesFrom(_, _, _)
MatchesFrom(path, graph, line) ==
    IF line > MaxPatterns THEN <<>>
    ELSE finditer([path |-> path, line |-> line], graph)
         \o MatchesFrom(path, graph, line + 1)

PathOf(set) ==
    IF set = "preneg" THEN pre_negation_uncertainty_path
    ELSE IF set = "neg" THEN negation_path
    ELSE post_negation_uncertainty_path

LexLess(a, b) == a[1] < b[1] \/ (a[1] = b[1] /\ a[2] < b[2])

\* C1. Precedence: a visited node bound by both a pre-negation-uncertainty match
\* and a negation match yields exactly one detection, UNCERTAINTY from the
\* pre-negation set, and the other two sets are not scanned for it; NEGATION
\* is yielded only for a node the pre-negation set does not bind, and a
\* post-negation UNCERTAINTY only for a node the pre-negation set does not bind
\* and for which match_neg was called and returned None.
C1_Precedence ==
    Visited =>
        /\ Hit(pre_negation_uncertainty_path, g, last.node) =>
            /\ Len(last.yields) = 1
            /\ last.yields[1].label = UNCERTAINTY
            /\ last.yields[1].m.pattern.path = pre_negation_uncertainty_path
            /\ \A i \in DOMAIN last.scans : last.scans[i].set = "preneg"
            /\ \A i \in DOMAIN locOut :
                locOut[i].m.group0 = last.node => locOut[i].label # NEGATION
        /\ \A i \in DOMAIN last.yields :
            /\ last.yields[i].label = NEGATION =>
                ~Hit(pre_negation_uncertainty_path, g, last.node)
            /\ last.yields[i].m.pattern.path = post_negation_uncertainty_path =>
                /\ ~Hit(pre_negation_uncertainty_path, g, last.node)
                /\ \E k \in DOMAIN last.scans :
                    last.scans[k].set = "neg" /\ last.scans[k].m = None

C1_Witness ==
    /\ Visited
    /\ Hit(pre_negation_uncertainty_path, g, last.node)
    /\ Hit(negation_path, g, last.node)
    /\ last.yields # <<>>

\* C2 as claimed. At most one detection carries the current location, however
\* many nodes find_nodes returned for it.
C2_AtMostOnePerLocation == Len(locOut) <= 1

\* C2 as amended. The detections carrying the current location are at most as
\* many as the nodes of the location visited so far, hence at most as many as
\* find_nodes returned for it: at most one per node, not one per location.
C2_AtMostOnePerNodeOfLocation ==
    /\ Len(locOut) <= ni - 1
    /\ ni - 1 <= Len(nodes)
    /\ Len(nodes) <= 1 => Len(locOut) <= 1

C2_Witness ==
    /\ Len(nodes) = 2
    /\ Len(locOut) = 2
    /\ locOut[1].loc = loc
    /\ locOut[2].loc = loc

\* C3. At most one detection per node: a visit of one (location, node) pair
\* yields at most one detection, and no node has two detections among those of
\* the current location, also when two or three pattern sets bind the node.
C3_AtMostOnePerNode ==
    /\ Visited => Len(last.yields) <= 1
    /\ \A n \in Nodes :
        Cardinality({i \in DOMAIN locOut : locOut[i].m.group0 = n}) <= 1

C3_Witness ==
    /\ Visited
    /\ Cardinality({path \in Paths : Hit(path, g, last.node)}) >= 2
    /\ Len(last.yields) = 1

\* C4. First match wins within a set: each scan of the pre-negation or the
\* post-negation set reads the matches of the set in load order of the patterns
\* and finditer order within a pattern, up to and including the first one whose
\* group(0) is the node, returns that one, and reads nothing after it; it reads
\* all of them and returns None when none binds the node.  The match of a
\* detection is the match its scan returned.
C4_FirstMatchWins ==
    Visited =>
        /\ \A i \in DOMAIN last.scans :
            LET s == last.scans[i]
                all == MatchesFrom(PathOf(s.set), g, 1)
                binding == {j \in 1..Len(all) : all[j].group0 = last.node}
            IN  s.set \in {"preneg", "postneg"} =>
                    IF binding = {}
                    THEN s.m = None /\ s.seen = all
                    ELSE LET first == CHOOSE j \in binding : \A j2 \in binding : j <= j2
                         IN  s.m = all[first] /\ s.seen = SubSeq(all, 1, first)
        /\ \A i \in DOMAIN last.yields :
            /\ last.scans # <<>>
            /\ last.yields[i].m = last.scans[Len(last.scans)].m
            /\ last.yields[i].m.group0 = last.node

C4_Witness ==
    /\ Visited
    /\ Len(last.yields) = 1
    /\ last.yields[1].m.pattern.path = post_negation_uncertainty_path
    /\ last.yields[1].m.pattern.line = 1
    /\ \E k \in 1..Len(g[[path |-> post_negation_uncertainty_path, line |-> 2]]) :
        g[[path |-> post_negation_uncertainty_path, line |-> 2]][k] = last.node

\* C5. No match: a visited node that no match of any of the three sets binds
\* yields nothing, and a call on a graph where no match binds any node has
\* yielded nothing at all.
C5_NoMatchNoDetection ==
    /\ (Visited /\ \A path \in Paths : ~Hit(path, g, last.node)) => last.yields = <<>>
    /\ (\A path \in Paths, n \in Nodes : ~Hit(path, g, n)) =>
            /\ locOut = <<>>
            /\ lastYield = <<0, 0>>

C5_Witness ==
    /\ Visited
    /\ \A path \in Paths : ~Hit(path, g, last.node)
    /\ \E path \in Paths, n \in Nodes : Hit(path, g, n)

\* C6. Order preservation: every yield comes at a later position than the yield
\* before it, where a position is the index of the location in locs, then the
\* index of the node in find_nodes order; the detections of the current
\* location carry that location and are in find_nodes order of their nodes.
C6_OrderPreserved ==
    /\ lastYield # <<0, 0>> => LexLess(prevYield, lastYield)
    /\ lastYield[1] <= li
    /\ \A i \in DOMAIN locOut : locOut[i].loc = loc
    /\ \A i, j \in DOMAIN locOut :
        i < j => LexLess(PositionOf(locOut[i].m.group0), PositionOf(locOut[j].m.group0))

C6_Witness ==
    /\ prevYield[1] = 1
    /\ lastYield[1] = 2
    /\ li = 2
    /\ locOut # <<>>

\* C7. Graph-construction failure: once detect has run on a sentence for which
\* semgraph.load or propagator.propagate raises, the offset of the sentence is
\* logged once, that same error has left detect, nothing was yielded and no
\* pattern set was scanned; and detect raises for no other sentence.
C7_GraphFailure ==
    /\ (sentence.dep # "ok" /\ pc # "created") =>
        /\ pc = "raised"
        /\ raised = sentence.dep
        /\ Len(log) = 1
        /\ log[1].offset = sentence.offset
        /\ locOut = <<>>
        /\ lastYield = <<0, 0>>
        /\ last = NoVisit
        /\ g = NoGraph
    /\ (sentence.dep = "ok") => (pc # "raised" /\ raised = NoError /\ log = <<>>)

C7_Witness ==
    /\ pc = "raised"
    /\ raised = "propagate_error"
    /\ sentence.offset = 57

\* ---- properties of classify -------------------------------------------------
StepsOfDocument(d) ==
    <<<<d, "parse_doc">>, <<d, "convert_doc">>, <<d, "detect">>, <<d, "del_sentences">>>>

\* The calls of a run of classify in which nothing raises, documents d..Len(docs).
RECURSIVE Pipeline(_, _)
Pipeline(docs, d) ==
    IF d > Len(docs) THEN <<>> ELSE StepsOfDocument(d) \o Pipeline(docs, d + 1)

IsPrefix(a, b) == Len(a) <= Len(b) /\ a = SubSeq(b, 1, Len(a))

HoldsText(doc) ==
    \E p \in DOMAIN doc.passages : doc.passages[p].sentences # <<>>

FullyProcessed(doc) ==
    /\ doc.parsed
    /\ doc.converted
    /\ doc.annotated
    /\ doc.passages # <<>>
    /\ doc.passages[1].sentences = <<>>

Untouched(doc) ==
    /\ ~doc.parsed
    /\ ~doc.converted
    /\ ~doc.annotated
    /\ \A p \in DOMAIN doc.passages : doc.passages[p].sentences = <<Sentence>>

\* C8. Pipeline ordering: the calls made so far are, in this order, parse_doc,
\* convert_doc, negdetect.detect and the del of the sentences of the first
\* document, then the same four of the second, and so on, with no call of a
\* later document before the del of the one before it; when classify returns
\* every document has had each of the four exactly once.
C8_PipelineOrder ==
    /\ IsPrefix(trace, Pipeline(documents, 1))
    /\ step = "done" => trace = Pipeline(documents, 1)
    /\ step \in {"parse", "convert", "detect", "discard"} =>
        /\ di \in DOMAIN documents
        /\ Len(trace) = 4 * (di - 1) +
            (CASE step = "parse" -> 0 [] step = "convert" -> 1
               [] step = "detect" -> 2 [] step = "discard" -> 3)

C8_Witness ==
    /\ step = "done"
    /\ Len(documents) = 2
    /\ Len(trace) = 8

\* C9. Text discard: when classify has returned normally, no sentence of any
\* passage of any document still holds its text.
C9_NoTextAfterClassify ==
    step = "done" => \A d \in DOMAIN documents : ~HoldsText(documents[d])

\* C10. Abort on failure: when parse_doc, convert_doc or negdetect.detect has
\* raised on document di, that error has left classify, the failed call was
\* the last call and was made once, the sentences of document di are still
\* there, no call was made on a later document and none can follow, the
\* documents before di are fully processed, and the parser, the converter and
\* the three pattern sets are the ones the constructor set.
C10_AbortOnFailure ==
    /\ (step = "raised" /\ error # "IndexError") =>
        /\ error = documents[di].fault
        /\ trace # <<>>
        /\ trace[Len(trace)][1] = di
        /\ trace[Len(trace)][2] =
            (CASE error = "parse_error" -> "parse_doc"
               [] error = "convert_error" -> "convert_doc"
               [] error = "detect_error" -> "detect")
        /\ \A i, j \in DOMAIN trace : trace[i] = trace[j] => i = j
        /\ \A i \in DOMAIN trace : trace[i][1] <= di
        /\ \A p \in DOMAIN documents[di].passages :
            documents[di].passages[p].sentences = <<Sentence>>
        /\ \A d \in DOMAIN documents :
            /\ d < di => FullyProcessed(documents[d])
            /\ d > di => Untouched(documents[d])
        /\ ~ENABLED NextClassify
        /\ parser = "NegBioParser"
        /\ ptb2dep = "NegBioPtb2DepConverter"
        /\ neg_patterns = load(negation_path)
        /\ uncertain_patterns = load(post_negation_uncertainty_path)
        /\ preneg_uncertain_patterns = load(pre_negation_uncertainty_path)
    /\ \A d \in DOMAIN documents : d < di => documents[d].fault = "none"

C10_Witness ==
    /\ step = "raised"
    /\ error = "detect_error"
    /\ di = 2
    /\ FullyProcessed(documents[1])

====
